---- MODULE Spec2Model ----
(***************************************************************************)
(* A model of rinexmod.py: the function rinexmod(), which validates the    *)
(* arguments of a run, prepares the output folder and the logger, and then *)
(* loops over a list of RINEX files, renaming each one, rewriting its      *)
(* header and writing it to an output folder.                              *)
(*                                                                         *)
(* Python strings are modelled as sequences of one-character strings, so   *)
(* that slicing, case conversion, substring tests and the os.path          *)
(* functions are computed the way Python computes them.                    *)
(***************************************************************************)
EXTENDS Integers, Sequences, FiniteSets, TLC

\* ------------------------------------------------------------------------
\* Bounds of the model
\* ------------------------------------------------------------------------

\* Longest list of input files a run is given.
MaxFiles == 2

\* ------------------------------------------------------------------------
\* Python values and string helpers
\* ------------------------------------------------------------------------

\* Python's None, as dict.get() returns it for a missing key.
None == "None"

\* An argument that was not given (the parser's default 0, or an empty
\* string or dict): every such value is false in a Python condition.
NotGiven == <<>>

\* bool(x) of a string, list or dict argument
Truthy(x) == x # NotGiven

UpperLetters == <<"A","B","C","D","E","F","G","H","I","J","K","L","M",
                  "N","O","P","Q","R","S","T","U","V","W","X","Y","Z">>

LowerLetters == <<"a","b","c","d","e","f","g","h","i","j","k","l","m",
                  "n","o","p","q","r","s","t","u","v","w","x","y","z">>

LowerChar(c) ==
    IF \E i \in DOMAIN UpperLetters : UpperLetters[i] = c
    THEN LowerLetters[CHOOSE i \in DOMAIN UpperLetters : UpperLetters[i] = c]
    ELSE c

UpperChar(c) ==
    IF \E i \in DOMAIN LowerLetters : LowerLetters[i] = c
    THEN UpperLetters[CHOOSE i \in DOMAIN LowerLetters : LowerLetters[i] = c]
    ELSE c

\* str.lower() and str.upper()
Lower(s) == [i \in 1..Len(s) |-> LowerChar(s[i])]

Upper(s) == [i \in 1..Len(s) |-> UpperChar(s[i])]

Min(a, b) == IF a < b THEN a ELSE b

\* s[:n] and s[n:] with Python's clamping of the bounds
Take(s, n) == SubSeq(s, 1, Min(n, Len(s)))

Drop(s, n) == SubSeq(s, n + 1, Len(s))

\* sub in s
Contains(sub, s) ==
    \E i \in 0..(Len(s) - Len(sub)) : SubSeq(s, i + 1, i + Len(sub)) = sub

\* s.startswith(p), s.endswith(p)
StartsWith(s, p) == Len(s) >= Len(p) /\ SubSeq(s, 1, Len(p)) = p

EndsWith(s, p) == Len(s) >= Len(p) /\ SubSeq(s, Len(s) - Len(p) + 1, Len(s)) = p

\* s.rfind('/') + 1: the position just after the last slash, 0 when none
LastSlash(s) ==
    IF \E i \in 1..Len(s) : s[i] = "/"
    THEN CHOOSE i \in 1..Len(s) : s[i] = "/" /\ \A j \in (i + 1)..Len(s) : s[j] # "/"
    ELSE 0

\* s.rstrip('/')
RECURSIVE RStripSlash(_)
RStripSlash(s) ==
    IF s # <<>> /\ s[Len(s)] = "/" THEN RStripSlash(SubSeq(s, 1, Len(s) - 1)) ELSE s

AllSlashes(s) == \A i \in 1..Len(s) : s[i] = "/"

\* s.split('/'): the components between slashes, empty ones included
RECURSIVE SplitFrom(_, _, _)
SplitFrom(s, i, cur) ==
    IF i > Len(s) THEN <<cur>>
    ELSE IF s[i] = "/" THEN <<cur>> \o SplitFrom(s, i + 1, <<>>)
    ELSE SplitFrom(s, i + 1, Append(cur, s[i]))

Split(s) == SplitFrom(s, 1, <<>>)

\* '/'.join(comps)
RECURSIVE JoinSlash(_)
JoinSlash(comps) ==
    IF comps = <<>> THEN <<>>
    ELSE IF Len(comps) = 1 THEN comps[1]
    ELSE comps[1] \o <<"/">> \o JoinSlash(Tail(comps))

\* [x for x in comps if x]
RECURSIVE NonEmpty(_)
NonEmpty(comps) ==
    IF comps = <<>> THEN <<>>
    ELSE IF comps[1] = <<>> THEN NonEmpty(Tail(comps))
    ELSE <<comps[1]>> \o NonEmpty(Tail(comps))

\* ------------------------------------------------------------------------
\* os.path (posixpath), as the standard library computes it
\* ------------------------------------------------------------------------

\* The working directory of the process.
Cwd == <<"/","w">>

Dot == <<".">>

DotDot == <<".",".">>

\* os.path.dirname
dirname(p) ==
    LET head == SubSeq(p, 1, LastSlash(p))
    IN  IF head # <<>> /\ ~AllSlashes(head) THEN RStripSlash(head) ELSE head

\* os.path.basename
basename(p) == Drop(p, LastSlash(p))

\* os.path.join(a, b)
join(a, b) ==
    IF StartsWith(b, <<"/">>) THEN b
    ELSE IF a = <<>> \/ EndsWith(a, <<"/">>) THEN a \o b
    ELSE a \o <<"/">> \o b

\* The loop of os.path.normpath over the components.
RECURSIVE NormComps(_, _, _)
NormComps(comps, new, initial) ==
    IF comps = <<>> THEN new
    ELSE LET c == comps[1]
             rest == Tail(comps)
         IN  IF c = <<>> \/ c = Dot THEN NormComps(rest, new, initial)
             ELSE IF \/ c # DotDot
                     \/ (~initial /\ new = <<>>)
                     \/ (new # <<>> /\ new[Len(new)] = DotDot)
                  THEN NormComps(rest, Append(new, c), initial)
             ELSE IF new # <<>>
                  THEN NormComps(rest, SubSeq(new, 1, Len(new) - 1), initial)
             ELSE NormComps(rest, new, initial)

\* os.path.normpath
normpath(p) ==
    IF p = <<>> THEN Dot
    ELSE LET initial == StartsWith(p, <<"/">>)
             two == StartsWith(p, <<"/","/">>) /\ ~StartsWith(p, <<"/","/","/">>)
             body == JoinSlash(NormComps(Split(p), <<>>, initial))
             path == IF two THEN <<"/","/">> \o body
                     ELSE IF initial THEN <<"/">> \o body
                     ELSE body
         IN  IF path = <<>> THEN Dot ELSE path

\* os.path.abspath
abspath(p) == normpath(IF StartsWith(p, <<"/">>) THEN p ELSE join(Cwd, p))

\* len(os.path.commonprefix([a, b])) on two lists of components
RECURSIVE CommonLen(_, _)
CommonLen(a, b) ==
    IF a = <<>> \/ b = <<>> \/ a[1] # b[1] THEN 0
    ELSE 1 + CommonLen(Tail(a), Tail(b))

\* os.path.relpath(path, start); path is not empty
relpath(path, start) ==
    LET start_list == NonEmpty(Split(abspath(start)))
        path_list == NonEmpty(Split(abspath(path)))
        i == CommonLen(start_list, path_list)
        rel_list == [k \in 1..(Len(start_list) - i) |-> DotDot]
                        \o SubSeq(path_list, i + 1, Len(path_list))
    IN  IF rel_list = <<>> THEN Dot ELSE JoinSlash(rel_list)

\* ------------------------------------------------------------------------
\* The inputs of a run
\* ------------------------------------------------------------------------

\* The output folder argument, the files the lists are made of, and the
\* values given to the options.
OutputArg == <<"/","o","/">>

FileA == <<"/","e","/","s","/","A","b","C","d",".","Z">>

FileB == <<"/","o","/","W","X","Y","Z",".","Z">>

FileC == <<"/","f","/","W","X","Y","Z",".","g","z">>

Paths == {FileA, FileB, FileC}

ListFilePath == <<"/","l">>

SitelogPath == <<"/","s",".","l","o","g">>

NineCharPath == <<"/","9">>

MarkerArg == <<"M","a","R","k">>

ReconstructArgs == {NotGiven, <<"/","e">>, <<"e">>}

CompressionArgs == {NotGiven, <<"g","z">>}

\* Lists of at most n files, no file twice.
RECURSIVE ListsUpTo(_)
ListsUpTo(n) ==
    IF n = 0 THEN {<<>>}
    ELSE LET shorter == ListsUpTo(n - 1)
         IN  shorter \cup {Append(l, f) : l \in {s \in shorter : Len(s) = n - 1},
                                          f \in Paths}

NoRepeat(l) == \A i, j \in DOMAIN l : l[i] = l[j] => i = j

Lists == {l \in ListsUpTo(MaxFiles) : NoRepeat(l)}

\* Keyword maps (--modification_kw) as the pairs of the dict, in insertion
\* order: none, accepted keys only, one holding an unknown key, and one
\* holding each of the accepted keys.
KwGood == << <<"station", "WXYZ">>, <<"antenna_type", "ANT">>, <<"agency", "AGN">> >>

KwBad == << <<"agency", "AGN">>, <<"antena_type", "ANT">> >>

KwFull ==
    << <<"observables", "GPS">>, <<"station", "STAT">>, <<"receiver_serial", "RSN">>,
       <<"receiver_type", "RTY">>, <<"receiver_fw", "RFW">>, <<"antenna_serial", "ASN">>,
       <<"antenna_type", "ATY">>, <<"antenna_X_pos", "PX">>, <<"antenna_Y_pos", "PY">>,
       <<"antenna_Z_pos", "PZ">>, <<"antenna_X_delta", "DX">>, <<"antenna_Y_delta", "DY">>,
       <<"antenna_Z_delta", "DZ">>, <<"operator", "OPE">>, <<"agency", "AGE">> >>

KwArgs == {NotGiven, KwGood, KwBad, KwFull}

\* The arguments of rinexmod(), except rinexlist.
Args ==
    [outputfolder : {OutputArg},
     marker : {NotGiven, MarkerArg},
     name : BOOLEAN,
     lone : BOOLEAN,
     sitelog : {NotGiven, SitelogPath},
     force : BOOLEAN,
     reconstruct : ReconstructArgs,
     ignore : BOOLEAN,
     ninecharfile : {NotGiven, NineCharPath},
     modification_kw : KwArgs,
     verbose : BOOLEAN,
     compression : CompressionArgs]

\* The rinexlist argument: a Python list of paths, or a string naming a list
\* file (or, with lone, naming one RINEX file). Before the list is read only
\* the type of the argument is looked at; the files it holds are drawn when
\* it is read.
RinexlistArgs(lone) ==
    IF lone THEN [kind : {"str"}, val : {NotGiven}]
    ELSE [kind : {"list", "str"}, val : {NotGiven}]

\* Contents a nine-char list file can have: its lines, as readlines() gives
\* them. The first has two lines with the same key.
NineCharLines1 ==
    << <<"A","B","C","D","0","0","F","R","A","\n">>,
       <<"a","b","c","d","0","0","R","E","U","\n">>,
       <<" ","m","a","r","0","0","F","R","A"," ","\n">>,
       <<"M","A","R","K","0","0","R","E","U","\n">> >>

NineCharFiles == {NineCharLines1}

\* The acceptable keywords of --modification_kw.
acceptable_keywords ==
    <<"station", "receiver_serial", "receiver_type", "receiver_fw",
      "antenna_serial", "antenna_type", "antenna_X_pos", "antenna_Y_pos",
      "antenna_Z_pos", "antenna_X_delta", "antenna_Y_delta", "antenna_Z_delta",
      "operator", "agency", "observables">>

\* kw in acceptable_keywords
InList(x, l) == \E i \in DOMAIN l : l[i] = x

\* dict.get(key) on a dict given as its pairs
GetAny(d, key) == IF d # <<>> THEN d[1][2] ELSE None

Get(d, key) ==
    IF \E i \in DOMAIN d : d[i][1] = key
    THEN d[CHOOSE i \in DOMAIN d : d[i][1] = key][2]
    ELSE None

\* str.strip()
Whitespace == {" ", "\n", "\t", "\r"}

RECURSIVE LStrip(_)
LStrip(s) == IF s # <<>> /\ s[1] \in Whitespace THEN LStrip(Tail(s)) ELSE s

RECURSIVE RStrip(_)
RStrip(s) ==
    IF s # <<>> /\ s[Len(s)] \in Whitespace THEN RStrip(SubSeq(s, 1, Len(s) - 1)) ELSE s

Strip(s) == LStrip(RStrip(s))

\* d[k] = v on a dict modelled as a function
PutIfAbsent(d, k, v) ==
    [x \in (DOMAIN d) \cup {k} |-> IF x \in DOMAIN d THEN d[x] ELSE v]

Put(d, k, v) == [x \in (DOMAIN d) \cup {k} |-> IF x = k THEN v ELSE d[x]]

EmptyDict == [x \in {} |-> NotGiven]

\* The loop that fills nine_char_dict from the lines of the list file.
RECURSIVE BuildNineCharDict(_, _)
BuildNineCharDict(lines, d) ==
    IF lines = <<>> THEN d
    ELSE BuildNineCharDict(Tail(lines), Put(d, Lower(Take(lines[1], 4)), Strip(lines[1])))

\* ------------------------------------------------------------------------
\* The state of a run
\* ------------------------------------------------------------------------

VARIABLES
    args,                \* the arguments of the call, as passed
    rinexlist,           \* local variable rinexlist (rebound to the list of files)
    outputfolder,        \* local variable outputfolder (rebound to its absolute path)
    compression,         \* local variable compression
    modification_source, \* local variable modification_source
    sitelogobj,          \* the SiteLog object
    nine_char_dict,      \* the 4 char > 9 char dictionary
    pc,                  \* where the call stands
    idx,                 \* number of files the loop has taken from the list
    last,                \* what the latest iteration of the loop did
    stdout,              \* the messages printed
    handlers,            \* the handlers of the root logger
    dirs,                \* the directories that exist, and those the run made
    logfile              \* the run created its log file

vars == <<args, rinexlist, outputfolder, compression, modification_source, sitelogobj,
          nine_char_dict, pc, idx, last, stdout, handlers, dirs, logfile>>

\* The SiteLog object before it is made.
NoSitelog == [status |-> -1, filename |-> NotGiven, station |-> NotGiven]

\* The directories of the input files, which exist when the run starts; the
\* output folder may exist or not.
InputDirs == {abspath(dirname(f)) : f \in {FileA, FileC}}

\* A local variable that was never assigned.
Unbound == <<"<","u","n","b","o","u","n","d",">">>

\* The record of one iteration of the loop, before it starts.
NoIteration ==
    [file |-> NotGiven,
     flow |-> "go",              \* "go", "continue", "raise" or "end"
     exception |-> "",
     compression |-> NotGiven,   \* local variable compression
     modification_source |-> Unbound,
     log |-> <<>>,               \* the records given to the logger
     myoutputfolder |-> NotGiven,
     makedirs |-> FALSE,
     loaded |-> FALSE,           \* RinexFile(file) was called
     status |-> -1,
     own_compression |-> NotGiven,
     original_filename |-> NotGiven,
     filename |-> NotGiven,      \* rinexfileobj.filename
     site |-> NotGiven,
     station_meta |-> NotGiven,
     resolved |-> "",            \* what rinex_metadata_lines returned
     setters |-> <<>>,           \* the header setters called, with their arguments
     comments |-> <<>>,          \* the comments added to the header
     written |-> FALSE,          \* write_to_path was called
     written_folder |-> NotGiven,
     written_compression |-> NotGiven]

Init ==
    /\ args \in Args
    /\ rinexlist \in RinexlistArgs(args.lone)
    /\ outputfolder = args.outputfolder
    /\ compression = args.compression
    /\ modification_source = Unbound
    /\ sitelogobj = NoSitelog
    /\ nine_char_dict = EmptyDict
    /\ pc = "validate"
    /\ idx = 0
    /\ last = NoIteration
    /\ stdout = <<>>
    /\ handlers = <<>>
    /\ dirs \in [present : {InputDirs, InputDirs \cup {abspath(args.outputfolder)}},
                 made : {{}}]
    /\ logfile = FALSE

\* An early `return` of rinexmod() after printing a message.
Return(msg) ==
    /\ stdout' = Append(stdout, msg)
    /\ pc' = "aborted"

\* ------------------------------------------------------------------------
\* The steps before the loop
\* ------------------------------------------------------------------------

\* The warnings printed for options that only make sense with --sitelog.
OptionWarnings ==
    (IF args.force /\ ~Truthy(args.sitelog) THEN <<"WARNING force without sitelog">> ELSE <<>>)
    \o (IF args.ignore /\ ~Truthy(args.sitelog) THEN <<"WARNING ignore without sitelog">> ELSE <<>>)

\* The checks of the arguments at the head of rinexmod().
CheckArguments ==
    /\ pc = "validate"
    /\ UNCHANGED <<args, rinexlist, outputfolder, compression, modification_source,
                   sitelogobj, nine_char_dict, idx, last, handlers, dirs,
                   logfile>>
    /\ IF Truthy(args.sitelog) /\ Truthy(args.modification_kw)
       THEN Return("ERROR sitelog and modification_kw")
       ELSE IF ~Truthy(args.sitelog) /\ ~Truthy(args.modification_kw)
               /\ ~Truthy(args.marker) /\ ~args.name
       THEN Return("ERROR no action asked")
       ELSE \E isfile \in BOOLEAN :
              IF rinexlist.kind # "list" /\ ~isfile
              THEN /\ stdout' = stdout \o OptionWarnings
                                   \o <<"ERROR input file does not exist">>
                   /\ pc' = "aborted"
              ELSE /\ stdout' = stdout \o OptionWarnings
                   /\ pc' = "setup"

\* os.path.isdir, os.mkdir and os.makedirs on the directories that exist
isdir(path) == normpath(path) \in dirs.present

mkdir(path) ==
    [present |-> dirs.present \cup {normpath(path)}, made |-> dirs.made \cup {normpath(path)}]

\* loggersVerbose(logfile): the log file is opened for appending and the
\* prompt and file handlers are added to the root logger.
loggersVerbose ==
    /\ logfile' = TRUE
    /\ handlers' = handlers \o <<"prompthandler", "filehandler">>

\* The output folder is made when missing, and the logger is set up.
SetupOutput ==
    /\ pc = "setup"
    /\ outputfolder' = abspath(outputfolder)
    /\ dirs' = IF ~isdir(outputfolder') THEN mkdir(outputfolder') ELSE dirs
    /\ loggersVerbose
    /\ pc' = "sitelog"
    /\ UNCHANGED <<args, rinexlist, compression, modification_source, sitelogobj,
                   nine_char_dict, idx, last, stdout>>

\* The station code of the site log (its 'Four Character ID').
SitelogStation == <<"A","B","C","D">>

\* SiteLog(sitelog): the object has a status, a file name and the station.
LoadSitelog ==
    /\ pc = "sitelog"
    /\ UNCHANGED <<args, rinexlist, outputfolder, compression, modification_source,
                   nine_char_dict, idx, last, handlers, dirs, logfile>>
    /\ IF Truthy(args.sitelog)
       THEN \E status \in {0, 1} :
              /\ sitelogobj' = [status |-> status,
                                filename |-> basename(args.sitelog),
                                station |-> SitelogStation]
              /\ IF status # 0
                 THEN Return("ERROR sitelog not parsable")
                 ELSE pc' = "keywords" /\ UNCHANGED stdout
       ELSE /\ pc' = "keywords"
            /\ UNCHANGED <<sitelogobj, stdout>>

\* The first keyword of the dict that is not acceptable, 0 when none.
NoBadKeyword(kw) == 0

FirstBadKeyword(kw) ==
    IF \E i \in DOMAIN kw : ~InList(kw[i][1], acceptable_keywords)
    THEN CHOOSE i \in DOMAIN kw :
            /\ ~InList(kw[i][1], acceptable_keywords)
            /\ \A j \in 1..(i - 1) : InList(kw[j][1], acceptable_keywords)
    ELSE 0

\* The keywords of --modification_kw are checked.
CheckKeywords ==
    /\ pc = "keywords"
    /\ UNCHANGED <<args, rinexlist, outputfolder, compression, modification_source,
                   sitelogobj, nine_char_dict, idx, last, handlers, dirs,
                   logfile>>
    /\ IF Truthy(args.modification_kw) /\ FirstBadKeyword(args.modification_kw) # 0
       THEN Return("ERROR not an acceptable keyword")
       ELSE pc' = "readlist" /\ UNCHANGED stdout

\* The list of files is read: the lone file, the list given, or the lines
\* of the list file (reading it may fail).
ReadList ==
    /\ pc = "readlist"
    /\ UNCHANGED <<args, outputfolder, compression, modification_source, sitelogobj,
                   nine_char_dict, idx, last, handlers, dirs, logfile>>
    /\ IF args.lone
       THEN \E file \in Paths :
              /\ rinexlist' = [kind |-> "list", val |-> <<file>>]
              /\ pc' = "ninechar"
              /\ UNCHANGED stdout
       ELSE IF rinexlist.kind = "list"
       THEN \E files \in Lists :
              /\ rinexlist' = [kind |-> "list", val |-> files]
              /\ pc' = "ninechar"
              /\ UNCHANGED stdout
       ELSE \/ \E lines \in Lists :
                 /\ rinexlist' = [kind |-> "list", val |-> lines]
                 /\ pc' = "ninechar"
                 /\ UNCHANGED stdout
            \/ /\ Return("ERROR input file is not a list")
               /\ UNCHANGED rinexlist

\* The nine-char list file is read into nine_char_dict.
LoadNineChar ==
    /\ pc = "ninechar"
    /\ UNCHANGED <<args, rinexlist, outputfolder, compression, modification_source,
                   sitelogobj, idx, last, handlers, dirs, logfile>>
    /\ IF Truthy(args.ninecharfile)
       THEN \/ /\ Return("ERROR 9-chars list file does not exist")
               /\ UNCHANGED nine_char_dict
            \/ \E nine_char_list \in NineCharFiles :
                 /\ nine_char_dict' = BuildNineCharDict(nine_char_list, EmptyDict)
                 /\ pc' = "loop"
                 /\ UNCHANGED stdout
       ELSE /\ pc' = "loop"
            /\ UNCHANGED <<nine_char_dict, stdout>>

\* ------------------------------------------------------------------------
\* What a run reads from a RinexFile object and from the site log
\* ------------------------------------------------------------------------

\* The compression of a file, which its name shows.
CompressionOf(file) ==
    IF EndsWith(file, <<".","g","z">>) THEN <<"g","z">>
    ELSE IF EndsWith(file, <<".","Z">>) THEN <<"Z">>
    ELSE NotGiven

HeaderStations == {<<"A","b","c","d">>, <<"W","X","Y","Z">>}

FilePeriods == {<<"0","1","D">>, <<"0","1","H">>}

\* The start of the data, with clock fields that are not zero.
StartDate == [year |-> 2021, yday |-> 74, hour |-> 13, minute |-> 45]

\* What rinex_metadata_lines() can return: no instrumentation, that of one
\* period, or (only when firmware changes are ignored) that of merged periods.
Resolutions(ignore) == {"none", "period"} \cup (IF ignore THEN {"merged"} ELSE {})

\* The metadata_vars tuple the site log gives for a period.
MetadataVars ==
    [fourchar_id |-> "ABCD",
     observable_type |-> "GPS+GLO",
     agencies |-> <<"OPE", "AGE">>,
     receiver |-> <<"RSER", "RTYPE", "RFW">>,
     antenna |-> <<"ASER", "ATYPE">>,
     antenna_pos |-> <<"X", "Y", "Z">>,
     antenna_delta |-> <<"DX", "DY", "DZ">>]

\* The RinexFile objects a run can get. A field the run does not read under
\* its arguments is held at one value; a file that did not load has no fields.
RinexObjects ==
    [status : 1..4, station : {NotGiven}, resolved : {""}, file_period : {NotGiven}]
    \cup
    [status : {0},
     station : IF Truthy(args.sitelog) THEN HeaderStations ELSE {NotGiven},
     resolved : IF Truthy(args.sitelog) THEN Resolutions(args.ignore) ELSE {""},
     file_period : IF args.name THEN FilePeriods ELSE {NotGiven}]

\* ------------------------------------------------------------------------
\* One iteration of the loop over the files, as steps on its record
\* ------------------------------------------------------------------------

\* logger.info / logger.warning / logger.error
Log(r, level, code) == [r EXCEPT !.log = Append(@, [level |-> level, code |-> code])]

\* `continue`, and an exception that nothing catches
Continue(r) == [r EXCEPT !.flow = "continue"]

Raise(r, exception) == [r EXCEPT !.flow = "raise", !.exception = exception]

\* The head of the loop body: the file is announced.
Begin(file) ==
    Log([NoIteration EXCEPT !.file = file,
                            !.compression = compression,
                            !.modification_source = modification_source],
        "info", "File")

\* The file is refused when it lies in the output folder.
SameFolderAsGiven(file) == dirname(file) = args.outputfolder

SameFolder(file) == abspath(dirname(file)) = outputfolder

\* The folder the file will be written to.
OutputSubfolder(file) ==
    IF Truthy(args.reconstruct)
    THEN join(outputfolder, relpath(dirname(file), args.reconstruct))
    ELSE outputfolder

\* The checks on the folders, before the file is opened.
CheckFolders(r) ==
    IF SameFolder(r.file)
    THEN Continue(Log(r, "error", "30"))
    ELSE IF Truthy(args.reconstruct) /\ ~Contains(args.reconstruct, r.file)
    THEN Continue(Log(r, "error", "31"))
    ELSE [r EXCEPT !.myoutputfolder = OutputSubfolder(r.file),
                   !.makedirs = Truthy(args.reconstruct)]

\* logger.info of the metadata when verbose
LogMetadata(r) == IF args.verbose THEN Log(r, "info", "File Metadata") ELSE r

\* The file is opened as a RinexFile object and its status is tested. The
\* message of status 2 is formatted with err_msg, a name that is not defined.
LoadRinex(r, rf) ==
    LET o == [r EXCEPT !.loaded = TRUE, !.status = rf.status]
    IN  IF rf.status = 1 THEN Continue(Log(o, "error", "01"))
        ELSE IF rf.status = 2 THEN Raise(o, "NameError: err_msg")
        ELSE IF rf.status = 3 THEN Continue(Log(o, "error", "03"))
        ELSE IF rf.status = 4 THEN Continue(Log(o, "error", "04"))
        ELSE LogMetadata([o EXCEPT !.own_compression = CompressionOf(r.file),
                                   !.original_filename = basename(r.file),
                                   !.filename = basename(r.file)])

\* The station in the file name is set to the marker.
MarkerName(marker, filename) == Lower(marker) \o Drop(filename, 4)

SetMarker(r) ==
    IF Truthy(args.marker)
    THEN [r EXCEPT !.filename = MarkerName(args.marker, r.filename)]
    ELSE r

\* The warning and the site name used when the country is not known.
UnknownSite(r) ==
    [Log(r, "warning", "32") EXCEPT !.site = Upper(Take(r.filename, 4)) \o <<"0","0","X","X","X">>]

\* The 9-char site name of the file.
SiteName(r) ==
    IF Truthy(args.ninecharfile)
    THEN IF Lower(Take(r.filename, 4)) \notin DOMAIN nine_char_dict
         THEN UnknownSite(r)
         ELSE [r EXCEPT !.site = nine_char_dict[Lower(Take(r.filename, 4))]]
    ELSE UnknownSite(r)

DigitChars == <<"0","1","2","3","4","5","6","7","8","9">>

\* A number written with w digits, zero padded.
RECURSIVE Digits(_, _)
Digits(n, w) ==
    IF w = 0 THEN <<>> ELSE Digits(n \div 10, w - 1) \o <<DigitChars[(n % 10) + 1]>>

\* The time format of the long name.
TimeFormatOfClock(file_period) == "%Y%j%H%M"

TimeFormat(file_period) ==
    IF file_period = <<"0","1","D">> THEN "%Y%j0000" ELSE "%Y%j%H%M"

\* datetime.strftime for the two formats
Strftime(date, timeformat) ==
    Digits(date.year, 4) \o Digits(date.yday, 3)
        \o (IF timeformat = "%Y%j%H%M"
            THEN Digits(date.hour, 2) \o Digits(date.minute, 2)
            ELSE <<"0","0","0","0">>)

\* '_'.join(parts)
RECURSIVE JoinUnderscore(_)
JoinUnderscore(parts) ==
    IF parts = <<>> THEN <<>>
    ELSE IF Len(parts) = 1 THEN parts[1]
    ELSE parts[1] \o <<"_">> \o JoinUnderscore(Tail(parts))

SampleRate == <<"3","0","S">>

ObservableType == <<"M">>

\* The long name of a file.
LongFilename(site, start_date, file_period, sample_rate, observable_type) ==
    JoinUnderscore(<<site,
                     Strftime(start_date, TimeFormat(file_period)),
                     file_period,
                     sample_rate,
                     observable_type \o <<"O",".","r","n","x">> >>)

\* The file is renamed to the long name convention.
SetLongName(r, rf) ==
    IF args.name
    THEN LET o == SiteName(r)
         IN  [o EXCEPT !.filename = LongFilename(o.site, StartDate, rf.file_period,
                                                 SampleRate, ObservableType)]
    ELSE r

\* A call of a setter of the RinexFile object.
Call(r, fn, arguments) ==
    [r EXCEPT !.setters = Append(@, [fn |-> fn, args |-> arguments])]

\* The station of the file differs from the station of the site log.
StationMismatch(sitelog_station, header_station) ==
    Lower(sitelog_station) # Lower(header_station)

\* What is done on a mismatch: an error is logged without --force, and with
\* --force a warning is logged and the loop continues with the next file.
MismatchBypassedByForce(r, force) ==
    IF ~force THEN Continue(Log(r, "error", "33")) ELSE Log(r, "warning", "34")

MismatchOutcome(r, force) ==
    IF ~force THEN Log(r, "error", "33") ELSE Continue(Log(r, "warning", "34"))

\* `not metadata_vars`: the site log has no instrumentation for the period.
NoPeriodOrMerged(resolved) == resolved # "period"

NoPeriod(resolved) == resolved = "none"

\* The header is filled from the site log.
SitelogHeader(r, rf) ==
    LET o == [r EXCEPT !.modification_source = sitelogobj.filename,
                       !.station_meta = rf.station]
        mismatch == StationMismatch(sitelogobj.station, rf.station)
        checked == IF mismatch THEN MismatchOutcome(o, args.force) ELSE o
        resolved == [checked EXCEPT !.resolved = rf.resolved]
        warned == IF rf.resolved = "merged" THEN Log(resolved, "warning", "36") ELSE resolved
        v == MetadataVars
    IN  IF checked.flow # "go" THEN checked
        ELSE IF NoPeriod(rf.resolved) THEN Continue(Log(resolved, "error", "35"))
        ELSE Call(Call(Call(Call(Call(Call(Call(warned,
                "set_marker", <<v.fourchar_id>>),
                "set_receiver", v.receiver),
                "set_antenna", v.antenna),
                "set_antenna_pos", v.antenna_pos),
                "set_antenna_delta", v.antenna_delta),
                "set_agencies", v.agencies),
                "set_observable_type", <<v.observable_type>>)

\* The header is filled from the keywords.
KeywordHeader(r) ==
    LET kw == args.modification_kw
        o == [r EXCEPT !.modification_source = <<"c","o","m","m","a","n","d"," ","l","i","n","e">>]
    IN  Call(Call(Call(Call(Call(Call(Call(o,
            "set_marker", <<Get(kw, "station")>>),
            "set_receiver", <<Get(kw, "receiver_serial"), Get(kw, "receiver_type"),
                              Get(kw, "receiver_fw")>>),
            "set_antenna", <<Get(kw, "antenna_serial"), Get(kw, "antenna_type")>>),
            "set_antenna_pos", <<Get(kw, "antenna_X_pos"), Get(kw, "antenna_Y_pos"),
                                 Get(kw, "antenna_Z_pos")>>),
            "set_antenna_delta", <<Get(kw, "antenna_X_delta"), Get(kw, "antenna_Y_delta"),
                                   Get(kw, "antenna_Z_delta")>>),
            "set_agencies", <<Get(kw, "operator"), Get(kw, "agency")>>),
            "set_observable_type", <<Get(kw, "observables")>>)

\* rinexfileobj.add_comment
AddCommentFirst(r, text, value) ==
    [r EXCEPT !.comments = <<[text |-> text, value |-> value]>> \o @]

AddComment(r, text, value) ==
    [r EXCEPT !.comments = Append(@, [text |-> text, value |-> value])]

\* The time of the run, as the first comment gives it.
Now == <<"n","o","w">>

\* The source is named in a comment when the header was modified.
NamesSource == Truthy(args.sitelog) \/ Truthy(args.modification_kw)

\* 'file assigned  from {}'.format(modification_source): reading the
\* variable raises when it was never assigned.
AssignedComment(r) ==
    IF r.modification_source = Unbound
    THEN Raise(r, "NameError: modification_source")
    ELSE AddComment(r, "file assigned  from", r.modification_source)

\* The comments added to the header.
AuditComments(r) ==
    LET stamped == AddComment(r, "rinexmoded on", Now)
        sourced == IF NamesSource
                   THEN AddComment(stamped, "rinexmoded from", r.modification_source)
                   ELSE stamped
    IN  IF Truthy(args.marker) THEN AssignedComment(sourced) ELSE sourced

\* The compression the file is written with.
OutputCompression(current, own) == IF ~Truthy(current) THEN own ELSE current

\* The file is written to its output folder.
WriteFile(r) ==
    LET c == OutputCompression(r.compression, r.own_compression)
        o == [r EXCEPT !.compression = c,
                       !.written = TRUE,
                       !.written_folder = r.myoutputfolder,
                       !.written_compression = c,
                       !.flow = "end"]
    IN  IF args.verbose THEN Log(o, "info", "Output file") ELSE o

\* The steps of the loop body after the checks on the folders.
Then(r, o) == IF r.flow = "go" THEN o ELSE r

ProcessLoaded(r, rf) ==
    LET loaded == LoadRinex(r, rf)
        named == Then(loaded, SetLongName(SetMarker(loaded), rf))
        sitelogged == IF Truthy(args.sitelog) THEN Then(named, SitelogHeader(named, rf))
                      ELSE named
        keyworded == IF Truthy(args.modification_kw)
                     THEN Then(sitelogged, KeywordHeader(sitelogged))
                     ELSE sitelogged
        shown == Then(keyworded, LogMetadata(keyworded))
        commented == Then(shown, AuditComments(shown))
    IN  Then(commented, WriteFile(commented))

\* The iteration is over: the loop goes on to the next file, unless an
\* exception left rinexmod().
EndIteration(r) ==
    /\ last' = r
    /\ compression' = r.compression
    /\ modification_source' = r.modification_source
    /\ dirs' = IF r.makedirs /\ ~isdir(r.myoutputfolder) THEN mkdir(r.myoutputfolder) ELSE dirs
    /\ idx' = idx + 1
    /\ pc' = IF r.flow = "raise" THEN "crashed" ELSE "loop"

\* One iteration of `for file in rinexlist`.
ProcessFile ==
    /\ pc = "loop"
    /\ idx < Len(rinexlist.val)
    /\ LET r == CheckFolders(Begin(rinexlist.val[idx + 1]))
       IN  IF r.flow # "go" THEN EndIteration(r)
           ELSE \E rf \in RinexObjects : EndIteration(ProcessLoaded(r, rf))
    /\ UNCHANGED <<args, rinexlist, outputfolder, sitelogobj, nine_char_dict, stdout,
                   handlers, logfile>>

\* The end of the loop: the handlers of the logger are cleared.
EndLoop ==
    /\ pc = "loop"
    /\ idx = Len(rinexlist.val)
    /\ handlers' = <<>>
    /\ pc' = "done"
    /\ UNCHANGED <<args, rinexlist, outputfolder, compression, modification_source,
                   sitelogobj, nine_char_dict, idx, last, stdout, dirs,
                   logfile>>

Next ==
    \/ CheckArguments
    \/ SetupOutput
    \/ LoadSitelog
    \/ CheckKeywords
    \/ ReadList
    \/ LoadNineChar
    \/ ProcessFile
    \/ EndLoop

Spec == Init /\ [][Next]_vars

\* ------------------------------------------------------------------------
\* Properties
\* ------------------------------------------------------------------------

\* The loop has run its body at least once; `last` describes that iteration.
Iterated == last.file # NotGiven

\* The codes logged at a level during the latest iteration.
RECURSIVE CodesAt(_, _)
CodesAt(log, level) ==
    IF log = <<>> THEN <<>>
    ELSE (IF log[1].level = level THEN <<log[1].code>> ELSE <<>>) \o CodesAt(Tail(log), level)

\* The latest iteration left the file as it was: no setter was called, no
\* comment was added and the file was not written.
Untouched == last.setters = <<>> /\ last.comments = <<>> /\ ~last.written

\* The latest file was opened in a site log run and its station differs from
\* the station of the site log, whatever the case of the letters.
MismatchSeen ==
    /\ Iterated
    /\ Truthy(args.sitelog)
    /\ last.station_meta # NotGiven
    /\ Lower(last.station_meta) # Lower(sitelogobj.station)

\* C1: once the arguments are accepted, the run takes every file of the
\* list in list order and ends normally: it is never left by an exception,
\* the file of the latest iteration is the idx-th of the list, and when the
\* run is done every file has been taken.
C1_EveryFileVisited ==
    /\ pc # "crashed"
    /\ (Iterated => last.file = rinexlist.val[idx])
    /\ (pc = "done" => idx = Len(rinexlist.val))

\* C2: in a site log run without --force, a file whose station differs from
\* the site log's is skipped: error 33 is logged, no setter is called, no
\* comment is added and the file is not written.
C2_MismatchSkipped ==
    (MismatchSeen /\ ~args.force)
        => /\ \E i \in DOMAIN last.log : last.log[i] = [level |-> "error", code |-> "33"]
           /\ Untouched

C4_OwnCompression ==
    last.written
        => last.written_compression =
              (IF Truthy(args.compression) THEN args.compression ELSE last.own_compression)

\* The error code of each load status.
StatusCode(status) ==
    IF status = 1 THEN "01" ELSE IF status = 2 THEN "02"
    ELSE IF status = 3 THEN "03" ELSE "04"

\* C5: a file whose load status is 1, 2, 3 or 4 gets exactly one error, with
\* the code of that status; its file name is not set, no setter is called,
\* no comment is added and it is not written.
C5_LoadFailureLogged ==
    (Iterated /\ last.loaded /\ last.status \in 1..4)
        => /\ CodesAt(last.log, "error") = <<StatusCode(last.status)>>
           /\ last.filename = NotGiven
           /\ Untouched

\* The messages of the aborts on the arguments the claim C6 names.
ValidationAborts ==
    {"ERROR sitelog and modification_kw", "ERROR no action asked",
     "ERROR not an acceptable keyword", "ERROR 9-chars list file does not exist"}

\* C6: a run that aborted on one of these has had no side effect: the output
\* folder was not made, no log file was created, the logger has no handler
\* and no file was opened.
C6_AbortWithoutSideEffect ==
    (pc = "aborted" /\ stdout[Len(stdout)] \in ValidationAborts)
        => /\ dirs.made = {}
           /\ ~logfile
           /\ handlers = <<>>
           /\ ~Iterated

\* C7: a file is never written into the directory it was read from.
C7_NeverWrittenInPlace ==
    last.written => normpath(last.written_folder) # abspath(dirname(last.file))

\* C8: a file that lies in the output folder is skipped with error 30 before
\* it is opened, whatever the other arguments.
C8_SameFolderSkipped ==
    (Iterated /\ abspath(dirname(last.file)) = abspath(args.outputfolder))
        => /\ last.log = <<[level |-> "info", code |-> "File"],
                           [level |-> "error", code |-> "30"]>>
           /\ last.flow = "continue"
           /\ ~last.loaded
           /\ Untouched

C8_Witness ==
    /\ Iterated
    /\ abspath(dirname(last.file)) = abspath(args.outputfolder)
    /\ CodesAt(last.log, "error") = <<"30">>
    /\ Truthy(args.marker) /\ args.name /\ args.verbose /\ args.force
    /\ Truthy(args.reconstruct) /\ Truthy(args.compression)

\* C9, in the case the claim names: in a run whose only requested action is
\* the marker, a file that loads with status 0 (and so does not lie in the
\* output folder) is written, under its original name with the first four
\* characters replaced by the lowercased marker.
C9_MarkerOnlyWritten ==
    (/\ Iterated /\ last.loaded /\ last.status = 0
     /\ Truthy(args.marker) /\ ~args.name
     /\ ~Truthy(args.sitelog) /\ ~Truthy(args.modification_kw))
        => /\ last.written
           /\ last.filename = Lower(args.marker) \o Drop(basename(last.file), 4)

\* C10 as claimed: a file that is written has had the processed-at comment
\* and then a comment naming the modification source added, in that order.
C10_StampThenSource ==
    last.written
        => /\ Len(last.comments) >= 2
           /\ last.comments[1].text = "rinexmoded on"
           /\ last.comments[2].text = "rinexmoded from"

\* The source a run with --sitelog or --modification_kw names.
SourceNamed ==
    IF Truthy(args.sitelog) THEN basename(args.sitelog)
    ELSE <<"c","o","m","m","a","n","d"," ","l","i","n","e">>

\* C10 as amended: a file that is written has had the processed-at comment
\* added first; in a run with a site log or keywords it is followed by the
\* comment naming that source and, when a marker is given in such a run, by
\* the 'file assigned from' comment naming the same source; in a run that
\* only renames, the processed-at comment is the only one.
C10_CommentsBySource ==
    last.written
        => last.comments =
              <<[text |-> "rinexmoded on", value |-> Now]>>
              \o (IF Truthy(args.sitelog) \/ Truthy(args.modification_kw)
                  THEN <<[text |-> "rinexmoded from", value |-> SourceNamed]>>
                  ELSE <<>>)
              \o (IF Truthy(args.marker)
                  THEN <<[text |-> "file assigned  from", value |-> SourceNamed]>>
                  ELSE <<>>)

C10_Witness ==
    /\ last.written
    /\ Len(last.comments) = 3
    /\ Truthy(args.sitelog)

\* The latest iteration opened its file, called a setter or wrote the file.
Handled == Iterated /\ (last.loaded \/ last.setters # <<>> \/ last.written)

\* C11: whenever a file is opened, modified or written, the arguments of the
\* run do not hold both a site log and keywords, hold at least one of site
\* log, keywords, marker and name, and every keyword is one of the fifteen
\* acceptable keywords.
C11_ValidConfiguration ==
    Handled
        => /\ ~(Truthy(args.sitelog) /\ Truthy(args.modification_kw))
           /\ (Truthy(args.sitelog) \/ Truthy(args.modification_kw)
                  \/ Truthy(args.marker) \/ args.name)
           /\ Len(acceptable_keywords) = 15
           /\ \A i \in DOMAIN args.modification_kw :
                 \E j \in DOMAIN acceptable_keywords :
                    acceptable_keywords[j] = args.modification_kw[i][1]

C11_Witness ==
    /\ Handled
    /\ last.written
    /\ Truthy(args.modification_kw)
    /\ last.setters # <<>>

\* path is folder itself or lies below it
IsUnder(path, folder) == path = folder \/ StartsWith(path, folder \o <<"/">>)

\* C12: with --reconstruct, a file that is written goes to the output folder
\* or to a folder below it, wherever the given string occurs in the path of
\* the file.
C12_ReconstructedUnderOutput ==
    (last.written /\ Truthy(args.reconstruct))
        => IsUnder(normpath(last.written_folder), abspath(args.outputfolder))

\* The first four characters, lowercased, of the name the file has after the
\* marker step: those of the marker when there is one.
SiteKey ==
    Lower(Take(IF Truthy(args.marker)
               THEN Lower(args.marker) \o Drop(basename(last.file), 4)
               ELSE basename(last.file), 4))

\* The latest file loaded in a run that renames to the long name.
LongNamed == Iterated /\ args.name /\ last.loaded /\ last.status = 0

SiteKeyIndexed == Truthy(args.ninecharfile) /\ SiteKey \in DOMAIN nine_char_dict

\* The site of the long name is the value the index holds under the key;
\* without an index, or when the key is missing, it is the key uppercased
\* followed by 00XXX and warning 32 is logged; the name starts with the site.
SiteIdResolved ==
    LongNamed
        => /\ last.site = (IF SiteKeyIndexed THEN nine_char_dict[SiteKey]
                           ELSE Upper(SiteKey) \o <<"0","0","X","X","X">>)
           /\ (~SiteKeyIndexed
                 <=> \E i \in DOMAIN last.log : last.log[i] = [level |-> "warning", code |-> "32"])
           /\ StartsWith(last.filename, last.site \o <<"_">>)

\* C13: in a run that renames to the long name, the site is resolved as
\* above from the name the file has after the marker step, and a file whose
\* site was not found is renamed and written all the same (in a run without
\* a site log, where no later step skips a file).
C13_SiteIdThenWritten ==
    /\ SiteIdResolved
    /\ (LongNamed /\ ~SiteKeyIndexed /\ ~Truthy(args.sitelog)) => last.written

\* The end of the long name of a daily file and of an hourly file whose data
\* start on day 74 of 2021 at 13:45.
DailyTail == <<"_","2","0","2","1","0","7","4","0","0","0","0","_","0","1","D","_","3","0","S","_","M","O",".","r","n","x">>

HourlyTail == <<"_","2","0","2","1","0","7","4","1","3","4","5","_","0","1","H","_","3","0","S","_","M","O",".","r","n","x">>

\* C14: the long name is the site, the time token, the period, the sample
\* rate and the observable type followed by O.rnx, joined by underscores in
\* that order; the time token of a daily file is the year and the day of
\* year followed by 0000 whatever the hour and minute of the start, that of
\* any other file is the year, day of year, hour and minute of the start.
C14_LongName ==
    LongNamed
        => /\ StartDate.hour # 0 /\ StartDate.minute # 0
           /\ \/ last.filename = last.site \o DailyTail
              \/ last.filename = last.site \o HourlyTail

C14_Witness ==
    /\ LongNamed
    /\ last.written
    /\ last.filename = last.site \o DailyTail

\* The header field of each keyword: the setter that takes it, as its place
\* among the seven setters, and the place of the field among the arguments.
FieldOf ==
    << [key |-> "station", fn |-> 1, pos |-> 1],
       [key |-> "receiver_serial", fn |-> 2, pos |-> 1],
       [key |-> "receiver_type", fn |-> 2, pos |-> 2],
       [key |-> "receiver_fw", fn |-> 2, pos |-> 3],
       [key |-> "antenna_serial", fn |-> 3, pos |-> 1],
       [key |-> "antenna_type", fn |-> 3, pos |-> 2],
       [key |-> "antenna_X_pos", fn |-> 4, pos |-> 1],
       [key |-> "antenna_Y_pos", fn |-> 4, pos |-> 2],
       [key |-> "antenna_Z_pos", fn |-> 4, pos |-> 3],
       [key |-> "antenna_X_delta", fn |-> 5, pos |-> 1],
       [key |-> "antenna_Y_delta", fn |-> 5, pos |-> 2],
       [key |-> "antenna_Z_delta", fn |-> 5, pos |-> 3],
       [key |-> "operator", fn |-> 6, pos |-> 1],
       [key |-> "agency", fn |-> 6, pos |-> 2],
       [key |-> "observables", fn |-> 7, pos |-> 1] >>

SetterNames ==
    <<"set_marker", "set_receiver", "set_antenna", "set_antenna_pos",
      "set_antenna_delta", "set_agencies", "set_observable_type">>

SetterArity == <<1, 3, 2, 3, 3, 2, 1>>

\* The latest file had its header set from the keywords.
KeywordsApplied == Iterated /\ Truthy(args.modification_kw) /\ last.setters # <<>>

\* C15: in a run with keywords, all acceptable, the seven setters are called
\* once each; the value of every keyword given is passed as the one field of
\* that name, and every field whose keyword was not given is passed as None.
C15_KeywordsToFields ==
    KeywordsApplied
        => /\ [i \in 1..7 |-> last.setters[i].fn] = SetterNames
           /\ [i \in 1..7 |-> Len(last.setters[i].args)] = SetterArity
           /\ \A k \in DOMAIN FieldOf :
                 LET given == {i \in DOMAIN args.modification_kw :
                                  args.modification_kw[i][1] = FieldOf[k].key}
                     passed == last.setters[FieldOf[k].fn].args[FieldOf[k].pos]
                 IN  IF given = {} THEN passed = None
                     ELSE \A i \in given : passed = args.modification_kw[i][2]

C15_Witness ==
    /\ KeywordsApplied
    /\ last.written
    /\ args.modification_kw = KwGood
    /\ last.setters[6].args = <<None, "AGN">>

\* d is the index of the lines: its keys are the lowercased first four
\* characters of the lines, and the value under a key is the trimmed text of
\* the last line that has this key.
IndexOfLines(d, lines) ==
    /\ DOMAIN d = {Lower(Take(lines[i], 4)) : i \in DOMAIN lines}
    /\ \A i \in DOMAIN lines :
          (\A j \in DOMAIN lines : j > i => Lower(Take(lines[j], 4)) # Lower(Take(lines[i], 4)))
             => d[Lower(Take(lines[i], 4))] = Strip(lines[i])

\* The loop over the files has been entered.
LoopEntered == pc \in {"loop", "done", "crashed"}

\* C16: once the nine-char list file is read, nine_char_dict maps the
\* lowercased first four characters of each line to the whole trimmed line,
\* the last line winning when several have the same key, and the loop over
\* the files never changes it.
C16_NineCharIndex ==
    /\ [](LoopEntered /\ Truthy(args.ninecharfile)
             => \E lines \in NineCharFiles : IndexOfLines(nine_char_dict, lines))
    /\ [][LoopEntered => nine_char_dict' = nine_char_dict]_vars

C16_Witness ==
    /\ LoopEntered
    /\ Iterated
    /\ Truthy(args.ninecharfile)
    /\ nine_char_dict[<<"a","b","c","d">>] = <<"a","b","c","d","0","0","R","E","U">>
    /\ nine_char_dict[<<" ","m","a","r">>] = <<"m","a","r","0","0","F","R","A">>

\* What an iteration did to its file: how it ended, the records logged, and
\* the name, folder, compression, setters and comments of the file.
Outcome(r) ==
    [flow |-> r.flow, exception |-> r.exception, log |-> r.log,
     filename |-> r.filename, written |-> r.written,
     written_folder |-> r.written_folder,
     written_compression |-> r.written_compression,
     setters |-> r.setters, comments |-> r.comments]

\* The iteration on a file that gives the RinexFile object rf, from its
\* record at the head of the loop body.
IterationFrom(begun, rf) ==
    LET r == CheckFolders(begun)
    IN  IF r.flow # "go" THEN r ELSE ProcessLoaded(r, rf)

\* The record at the head of the loop body when the file is the first of
\* the list: the local variables are as the call left them.
BegunFirst(file) ==
    Log([NoIteration EXCEPT !.file = file,
                            !.compression = args.compression,
                            !.modification_source = Unbound],
        "info", "File")

\* C17: what the loop does to the next file of the list is what it would do
\* to this file as the first file of a list, with the same arguments and
\* the same RinexFile object, whatever files came before it.
C17_OutcomeIndependent ==
    (pc = "loop" /\ idx < Len(rinexlist.val))
        => \A rf \in RinexObjects :
              Outcome(IterationFrom(Begin(rinexlist.val[idx + 1]), rf))
                 = Outcome(IterationFrom(BegunFirst(rinexlist.val[idx + 1]), rf))

\* The latest file was opened in a site log run and its station is the
\* station of the site log.
StationMatched ==
    /\ Iterated
    /\ Truthy(args.sitelog)
    /\ last.station_meta # NotGiven
    /\ Lower(last.station_meta) = Lower(sitelogobj.station)

\* The seven setters were called with the fields the site log returned.
SetFromSitelog ==
    /\ [i \in 1..7 |-> last.setters[i].fn] = SetterNames
    /\ [i \in 1..7 |-> last.setters[i].args]
          = << <<MetadataVars.fourchar_id>>, MetadataVars.receiver, MetadataVars.antenna,
               MetadataVars.antenna_pos, MetadataVars.antenna_delta,
               MetadataVars.agencies, <<MetadataVars.observable_type>> >>

Logged(level, code) == \E i \in DOMAIN last.log : last.log[i] = [level |-> level, code |-> code]

\* C18: in a site log run, for a file of the station of the site log: when
\* no period applies, error 35 is logged and the file is neither modified
\* nor written; when the period returned is a merged one, warning 36 is
\* logged and the file is modified with the fields returned and written;
\* when it is a single period, no warning 36 is logged and the file is
\* modified and written.
C18_PeriodOutcomes ==
    StationMatched
        => /\ last.resolved \in {"none", "merged", "period"}
           /\ last.resolved = "none"
                 => Logged("error", "35") /\ last.flow = "continue" /\ Untouched
           /\ last.resolved = "merged"
                 => Logged("warning", "36") /\ SetFromSitelog /\ last.written
           /\ last.resolved = "period"
                 => ~Logged("warning", "36") /\ SetFromSitelog /\ last.written
           /\ last.resolved # "none" => CodesAt(last.log, "error") = <<>>

C18_Witness ==
    /\ StationMatched
    /\ last.resolved = "merged"
    /\ Logged("warning", "36")
    /\ last.written

\* C19: when rinexmod() has returned, at the end of the loop or by any of
\* its early returns, the root logger holds none of the handlers the call
\* added to it.
C19_HandlersCleared ==
    pc \in {"done", "aborted"} => handlers = <<>>

====
